---- MODULE Spec2Model ----
(***************************************************************************)
(* State-machine model of deploy_chronicle_rules.py: main() runs four      *)
(* steps in sequence (list the rules of Chronicle, list and fetch the rule *)
(* files of Bitbucket, verify and upload every new rule, list the rules    *)
(* again) and exits.  Every remote request is one step of the model; the   *)
(* remote services answer nondeterministically from small response sets.   *)
(*                                                                         *)
(* Python values: a str is a sequence of tokens (<<"rules","/","ruleA">>   *)
(* is "rules/ruleA", <<>> is ""), bytes are sequences of byte values, a    *)
(* JSON object is a record whose DOMAIN is its set of keys, and an         *)
(* optional value is None (<<>>) or Some(v) (<<v>>).                       *)
(***************************************************************************)
EXTENDS Integers, Sequences, FiniteSets

\* ---------------------------------------------------------------- bounds
\* Most pages the rule listing of Chronicle serves (a page 'MaxPages' never
\* carries a token for a further page).
MaxPages == 3
\* Most pages the directory listing of Bitbucket serves.
MaxDirPages == 2

\* ------------------------------------------------------- Python helpers
None == <<>>
Some(v) == <<v>>
IsNone(o) == o = <<>>
Val(o) == o[1]

\* dict.get(key, default)
Get(d, k, default) == IF k \in DOMAIN d THEN d[k] ELSE default

\* Truthiness of a str / bytes / list value.
Truthy(s) == Len(s) > 0

\* str.rfind as a 1-based position, 0 when absent
RFind(s, t) ==
  IF \E n \in DOMAIN s : s[n] = t
  THEN CHOOSE n \in DOMAIN s : s[n] = t /\ \A m \in DOMAIN s : s[m] = t => m <= n
  ELSE 0

\* Path(p).name : the last component of a path
PathName(p) == SubSeq(p, RFind(p, "/") + 1, Len(p))

\* Path(name).stem : the name without its last suffix; a dot that leads or
\* ends the name starts no suffix
PathStem(name) ==
  LET d == RFind(name, ".")
  IN IF d > 1 /\ d < Len(name) THEN SubSeq(name, 1, d - 1) ELSE name

\* path.endswith('.yaral')
EndsWithYaral(p) ==
  Len(p) >= 2 /\ p[Len(p) - 1] = "." /\ p[Len(p)] = "yaral"

\* bytes.decode('utf-8'): None stands for UnicodeDecodeError.  The byte
\* values used are ASCII (valid) or 255 (never valid in UTF-8).  The ASCII
\* characters str.strip() removes are 9-13 and 28-32.
IsWhitespace(b) == b \in (9..13) \cup (28..32)
Decode(bytes) ==
  IF \A n \in DOMAIN bytes : bytes[n] < 128 THEN Some(bytes) ELSE None

\* str.strip()
RECURSIVE LStrip(_)
LStrip(s) ==
  IF s # <<>> /\ IsWhitespace(Head(s)) THEN LStrip(Tail(s)) ELSE s
RECURSIVE RStrip(_)
RStrip(s) ==
  IF s # <<>> /\ IsWhitespace(s[Len(s)])
  THEN RStrip(SubSeq(s, 1, Len(s) - 1)) ELSE s
Strip(s) == RStrip(LStrip(s))

\* ------------------------------------------------------------ responses
\* An HTTP exchange: status 0 stands for a transport failure (requests
\* raises a RequestException that carries no response).  The content is
\* empty, a JSON object, or bytes that are not JSON.
Empty == [tag |-> "empty"]
Json(obj) == [tag |-> "json", val |-> obj]
Bytes(data) == [tag |-> "bytes", data |-> data]
Resp(status, content) == [status |-> status, content |-> content]
TransportFailure == Resp(0, Empty)

\* Response.raise_for_status(): raises only for 4xx and 5xx
raise_for_status(status) == status >= 400 /\ status < 600

\* Response.json(): None stands for JSONDecodeError
json(content) == IF content.tag = "json" THEN Some(content.val) ELSE None

\* _make_api_request: None, or Some(parsed JSON), or with stream=True
\* Some(content bytes) or Some(the Response object itself)
ResponseObject(status) == [tag |-> "response", status |-> status]
_make_api_request(resp, expected_status, stream) ==
  IF resp.status = 0 THEN None
  ELSE IF resp.status # expected_status /\ raise_for_status(resp.status)
  THEN None
  ELSE IF resp.status = 204 \/ resp.content.tag = "empty"
  THEN (IF stream THEN Some(ResponseObject(resp.status)) ELSE None)
  ELSE IF stream THEN Some(resp.content) ELSE json(resp.content)

\* bool(x) of what a stream request returned: bytes are true when not
\* empty, a Response is true when it is ok, that is when
\* raise_for_status() would not raise (any status but 4xx and 5xx)
TruthyContent(o) ==
  /\ ~IsNone(o)
  /\ IF Val(o).tag = "response" THEN ~raise_for_status(Val(o).status)
     ELSE Truthy(Val(o).data)

\* ------------------------------------------------- what the services send
RA == <<"ruleA">>
RB == <<"ruleB">>
\* A JSON object that holds none of the keys the program reads
PlainObject == [kind |-> <<"x">>]
ErrorBody == Json([error |-> <<"denied">>])
Html == Bytes(<<60, 104, 62>>)

\* Token or link of page n of a listing: a non-empty str.  The services
\* name every further page by a token or link of its own.
PageToken(n) == <<n>>

\* 'rules' arrays a page of GET detect/rules may hold: a named rule, a
\* named rule followed by a rule without ruleName, a rule whose ruleName
\* is the empty str
RuleArrays ==
  { <<[ruleName |-> RA, ruleId |-> <<"id1">>]>>,
    <<[ruleName |-> RB, ruleId |-> <<"id2">>], [ruleId |-> <<"id7">>]>>,
    <<[ruleName |-> <<>>, id |-> <<"id9">>]>> }

\* JSON bodies of page n of the rule listing: with or without 'rules',
\* with a token for page n+1, with an empty token, or with none
RuleListBodies(n) ==
  LET base == {[rules |-> a] : a \in RuleArrays} \cup {PlainObject}
      more == IF n < MaxPages
              THEN {[rules |-> a, nextPageToken |-> PageToken(n + 1)] :
                      a \in RuleArrays}
                   \cup {[nextPageToken |-> PageToken(n + 1)]}
              ELSE {}
      blank == {[rules |-> a, nextPageToken |-> <<>>] : a \in RuleArrays}
  IN base \cup more \cup blank

\* Answers to the request for page n of the rule listing in step 1
FirstListResponses(n) ==
  {Resp(200, Json(b)) : b \in RuleListBodies(n)}
  \cup {Resp(201, Json(b)) : b \in {[rules |-> a] : a \in RuleArrays}}
  \cup {TransportFailure, Resp(403, ErrorBody), Resp(200, Empty),
        Resp(200, Html), Resp(204, Empty)}

\* Answers to the request for page n of the rule listing in step 4, whose
\* result main drops: a last page, a page with a token, a failure
FinalListResponses(n) ==
  {Resp(200, Json([rules |-> <<[ruleName |-> RA, ruleId |-> <<"id1">>]>>])),
   TransportFailure}
  \cup (IF n < MaxPages
        THEN {Resp(200, Json([rules |-> <<[ruleName |-> RB, ruleId |-> <<"id2">>]>>,
                              nextPageToken |-> PageToken(n + 1)]))}
        ELSE {})

RuleListResponses(n, step) ==
  IF step = "step1" THEN FirstListResponses(n) ELSE FinalListResponses(n)

\* Paths of the repository
pA == <<"rules", "/", "ruleA", ".", "yaral">>
pB == <<"rules", "/", "ruleB", ".", "yaral">>
pSubA == <<"rules", "/", "sub", "/", "ruleA", ".", "yaral">>
pTxt == <<"rules", "/", "notes", ".", "txt">>
pDir == <<"rules", "/", "old", ".", "yaral">>
File(p) == [type |-> "commit_file", path |-> p]
Dir(p) == [type |-> "commit_directory", path |-> p]

\* 'values' arrays a page of the directory listing may hold
ValueArrays ==
  { <<File(pA), File(pTxt)>>,
    <<Dir(pDir), File(pB)>>,
    <<File(pSubA)>> }

DirListBodies(n) ==
  LET base == {[values |-> a] : a \in ValueArrays} \cup {[values |-> <<>>]}
      more == IF n < MaxDirPages
              THEN {[values |-> a, next |-> PageToken(n + 1)] :
                      a \in ValueArrays}
              ELSE {}
  IN base \cup more \cup {[values |-> <<File(pB)>>, next |-> <<>>]}

DirListResponses(n) ==
  {Resp(200, Json(b)) : b \in DirListBodies(n)}
  \cup {TransportFailure, Resp(404, ErrorBody), Resp(200, Empty),
        Resp(200, Json([type |-> <<"error">>]))}

\* Contents of a rule file: rule text, white space only, not UTF-8
RuleText == <<114, 117, 108, 101, 10>>
Blank == <<32, 10>>
NotUtf8 == <<114, 255>>
FileResponses ==
  { Resp(200, Bytes(RuleText)), Resp(200, Bytes(Blank)),
    Resp(200, Bytes(NotUtf8)), Resp(200, Empty), Resp(404, ErrorBody),
    TransportFailure, Resp(201, Bytes(RuleText)) }

VerifyResponses ==
  { Resp(200, Json(PlainObject)), Resp(200, Empty), Resp(400, ErrorBody),
    TransportFailure, Resp(201, Json(PlainObject)), Resp(204, Empty) }

UploadResponses ==
  { Resp(200, Json([ruleId |-> <<"ru_1">>])), Resp(200, Json([id |-> <<"ru_1">>])),
    Resp(200, Json(PlainObject)), Resp(500, Html), TransportFailure,
    Resp(201, Json([ruleId |-> <<"ru_1">>])) }

\* ---------------------------------------------------------------- state
VARIABLES
  pc,                       \* position of main: "step1", "step1_return"
                            \* (line 240), "step2" (top of the while of
                            \* get_files_from_bitbucket), "step2_items"
                            \* (inside its for), "step2_return" (line 249),
                            \* "step3", "step3_upload" (between verify and
                            \* upload), "step4", "step4_return", "exited"
  exit_status,              \* None while running, Some(code) after exit()
  existing_rule_names,      \* main: None or Some(set of names)
  rules_from_bitbucket,     \* main: None or Some(list of candidates)
  idx,                      \* main: position of the for loop of step 3
  rules_processed, rules_uploaded, rules_skipped,
  rules_failed_verification, rules_failed_upload,
  existing_rule_names_set,  \* get_existing_rule_names: names so far
  page_num,                 \* get_existing_rule_names
  next_page_token,          \* get_existing_rule_names: <<>> is None or ""
  rule_files_content,       \* get_files_from_bitbucket: candidates so far
  list_url,                 \* get_files_from_bitbucket
  response_data,            \* get_files_from_bitbucket: page being walked
  item,                     \* get_files_from_bitbucket: position in 'values'
  log,                      \* history: every request issued, in order
  listing,                  \* history: what the listing call that runs, or
                            \* has returned and main has not yet looked at,
                            \* received
  last                      \* history: the latest exchange

counters == <<rules_processed, rules_uploaded, rules_skipped,
              rules_failed_verification, rules_failed_upload>>
mainVars == <<existing_rule_names, rules_from_bitbucket, idx>>
rulesLocals == <<existing_rule_names_set, page_num, next_page_token>>
filesLocals == <<rule_files_content, list_url, response_data, item>>
vars == <<pc, exit_status, mainVars, counters, rulesLocals, filesLocals,
          log, listing, last>>

\* The step of main a position belongs to
StepOf(p) ==
  CASE p \in {"step1", "step1_return"} -> 1
    [] p \in {"step2", "step2_items", "step2_return"} -> 2
    [] p \in {"step3", "step3_upload"} -> 3
    [] OTHER -> 4

\* Entries of the log: the step of main, the operation, what identifies
\* the request (page token, page link, place of the file in the listing,
\* place of the candidate in the list) and, for all but file contents,
\* whether the caller took the answer for a success
Request(op, key) == [step |-> StepOf(pc), op |-> op, key |-> key]
Answered(op, key, ok) ==
  [step |-> StepOf(pc), op |-> op, key |-> key, ok |-> ok]
Exchange(op, resp, expected, data) ==
  [op |-> op, resp |-> resp, expected |-> expected, data |-> data]
NoListing == [pages |-> <<>>, files |-> <<>>]

Init ==
  /\ pc = "step1"
  /\ exit_status = None
  /\ existing_rule_names = None
  /\ rules_from_bitbucket = None
  /\ idx = 1
  /\ rules_processed = 0 /\ rules_uploaded = 0 /\ rules_skipped = 0
  /\ rules_failed_verification = 0 /\ rules_failed_upload = 0
  /\ existing_rule_names_set = {}
  /\ page_num = 1
  /\ next_page_token = <<>>
  /\ rule_files_content = <<>>
  /\ list_url = PageToken(1)
  /\ response_data = [values |-> <<>>]
  /\ item = 1
  /\ log = <<>>
  /\ listing = NoListing
  /\ last = Exchange("none", TransportFailure, 200, None)

\* exit(code)
exit(code) == pc' = "exited" /\ exit_status' = Some(code)

\* ------------------------------------------- get_existing_rule_names
\* Lines 158-168: the names a page adds, every ruleName that is present
\* and not empty
NamesOfPage(data) ==
  LET rules == Get(data, "rules", <<>>)
  IN {Get(rules[k], "ruleName", <<>>) : k \in DOMAIN rules} \ {<<>>}

\* Faulty variant: the names of a page replace those of the pages before
AddNamesOfLastPage(names, data) == NamesOfPage(data)

\* Lines 161-165: the set of names after a page
AddNames(names, data) == names \cup NamesOfPage(data)

\* get_existing_rule_names returns 'ret' (lines 153, 177): main binds it
\* in step 1 (line 239) and drops it in step 4 (line 295)
ReturnRules(ret) ==
  /\ existing_rule_names_set' = {}
  /\ page_num' = 1
  /\ next_page_token' = <<>>
  /\ IF pc = "step1"
     THEN existing_rule_names' = ret /\ pc' = "step1_return"
     ELSE existing_rule_names' = existing_rule_names /\ pc' = "step4_return"

\* Faulty variant: any page that yields nothing makes the listing fail
PageFailedAborts == ReturnRules(None)

\* Lines 150-156: the request of a page yielded nothing
PageFailed ==
  IF page_num = 1
  THEN ReturnRules(None)
  ELSE ReturnRules(Some(existing_rule_names_set))

\* One pass of the while loop of get_existing_rule_names (lines 142-173),
\* with the return (175-177) when the loop ends
ListRulesPage ==
  /\ pc \in {"step1", "step4"}
  /\ \E resp \in RuleListResponses(page_num, pc) :
       LET data == _make_api_request(resp, 200, FALSE)
           names == AddNames(existing_rule_names_set, Val(data))
           token == Get(Val(data), "nextPageToken", <<>>)
       IN /\ log' = Append(log, Answered("list_rules", next_page_token, ~IsNone(data)))
          /\ last' = Exchange("list_rules", resp, 200, data)
          /\ IF IsNone(data)
             THEN /\ listing' = listing
                  /\ PageFailed
             ELSE IF ~Truthy(token)
             THEN /\ listing' = [listing EXCEPT !.pages = Append(@, Val(data))]
                  /\ ReturnRules(Some(names))
             ELSE /\ listing' = [listing EXCEPT !.pages = Append(@, Val(data))]
                  /\ existing_rule_names_set' = names
                  /\ next_page_token' = token
                  /\ page_num' = page_num + 1
                  /\ UNCHANGED <<pc, existing_rule_names>>
  /\ UNCHANGED <<exit_status, rules_from_bitbucket, idx, counters, filesLocals>>

\* Faulty variant: a listing that failed is asked for again
CheckStep1Retries ==
  /\ pc = "step1_return"
  /\ pc' = IF IsNone(existing_rule_names) THEN "step1" ELSE "step2"
  /\ listing' = NoListing
  /\ UNCHANGED <<exit_status, mainVars, counters, rulesLocals, filesLocals,
                 log, last>>

\* main, lines 240-243: without the set of step 1 the run aborts
CheckStep1 ==
  /\ pc = "step1_return"
  /\ IF IsNone(existing_rule_names)
     THEN exit(1)
     ELSE pc' = "step2" /\ exit_status' = exit_status
  /\ listing' = NoListing
  /\ UNCHANGED <<mainVars, counters, rulesLocals, filesLocals, log, last>>

\* ------------------------------------------- get_files_from_bitbucket
\* Line 92: the entry is a file and its path ends with '.yaral'
Qualifies(entry) ==
  /\ Get(entry, "type", <<>>) = "commit_file"
  /\ EndsWithYaral(Get(entry, "path", <<>>))

\* Lines 93-96 and 108: the candidate of a file whose text is 'text'
Candidate(path, text) ==
  [name |-> PathStem(PathName(path)), text |-> text, path |-> path]

\* Faulty variant: the text is not stripped before it is tested
WithContentKeepsBlank(content_list, path, content) ==
  IF ~TruthyContent(content) THEN content_list
  ELSE IF Val(content).tag = "response" THEN content_list
  ELSE IF IsNone(Decode(Val(content).data)) THEN content_list
  ELSE Append(content_list, Candidate(path, Val(Decode(Val(content).data))))

\* Lines 103-117: the candidate list after the content request of 'path'
\* returned 'content'.  A Response object has no decode(): the
\* AttributeError is caught at line 114 and the file is left out.
WithContent(content_list, path, content) ==
  IF ~TruthyContent(content) THEN content_list
  ELSE IF Val(content).tag = "response" THEN content_list
  ELSE IF IsNone(Decode(Val(content).data)) THEN content_list
  ELSE IF ~Truthy(Strip(Val(Decode(Val(content).data)))) THEN content_list
  ELSE Append(content_list, Candidate(path, Val(Decode(Val(content).data))))

\* get_files_from_bitbucket returns 'ret' (lines 89, 123) and main binds
\* it (line 248)
ReturnFiles(ret) ==
  /\ rule_files_content' = <<>>
  /\ list_url' = PageToken(1)
  /\ response_data' = [values |-> <<>>]
  /\ item' = 1
  /\ rules_from_bitbucket' = ret
  /\ pc' = "step2_return"

\* Lines 119-123: the for loop over a page is over; follow 'next' or
\* return.  'seen' is the history of the listing up to this page.
EndPage(data, content_list, seen) ==
  LET next == Get(data, "next", <<>>)
  IN IF Truthy(next)
     THEN /\ list_url' = next
          /\ rule_files_content' = content_list
          /\ response_data' = [values |-> <<>>]
          /\ item' = 1
          /\ pc' = "step2"
          /\ listing' = [seen EXCEPT !.pages = Append(@, data)]
          /\ UNCHANGED rules_from_bitbucket
     ELSE /\ listing' = [seen EXCEPT !.pages = Append(@, data)]
          /\ ReturnFiles(Some(content_list))

\* Lines 83-91: request a page of the directory listing
ListFilesPage ==
  /\ pc = "step2"
  /\ \E resp \in DirListResponses(list_url[1]) :
       LET data == _make_api_request(resp, 200, FALSE)
           failed == IsNone(data) \/ "values" \notin DOMAIN Val(data)
       IN /\ log' = Append(log, Answered("list_files", list_url, ~failed))
          /\ last' = Exchange("list_files", resp, 200, data)
          /\ IF failed
             THEN /\ listing' = listing
                  /\ ReturnFiles(None)
             ELSE IF Get(Val(data), "values", <<>>) = <<>>
             THEN EndPage(Val(data), rule_files_content, listing)
             ELSE /\ response_data' = Val(data)
                  /\ item' = 1
                  /\ pc' = "step2_items"
                  /\ UNCHANGED <<rules_from_bitbucket, rule_files_content,
                                 list_url, listing>>
  /\ UNCHANGED <<exit_status, existing_rule_names, idx, counters, rulesLocals>>

\* Lines 91-92 for an entry that is no rule file: nothing is requested
SkipItem ==
  /\ pc = "step2_items"
  /\ ~Qualifies(response_data.values[item])
  /\ IF item < Len(response_data.values)
     THEN /\ item' = item + 1
          /\ UNCHANGED <<pc, rules_from_bitbucket, rule_files_content,
                         list_url, response_data, listing>>
     ELSE EndPage(response_data, rule_files_content, listing)
  /\ UNCHANGED <<exit_status, existing_rule_names, idx, counters,
                 rulesLocals, log, last>>

\* Lines 92-117 for a rule file: request its content, keep it or leave it out
FetchFile ==
  /\ pc = "step2_items"
  /\ Qualifies(response_data.values[item])
  /\ \E resp \in FileResponses :
       LET path == response_data.values[item].path
           content == _make_api_request(resp, 200, TRUE)
           content_list == WithContent(rule_files_content, path, content)
           seen == [listing EXCEPT !.files =
                      Append(@, [path |-> path, content |-> content])]
       IN /\ log' = Append(log, Request("file", <<list_url[1], item>>))
          /\ last' = Exchange("file", resp, 200, content)
          /\ IF item < Len(response_data.values)
             THEN /\ item' = item + 1
                  /\ rule_files_content' = content_list
                  /\ listing' = seen
                  /\ UNCHANGED <<pc, rules_from_bitbucket, list_url, response_data>>
             ELSE EndPage(response_data, content_list, seen)
  /\ UNCHANGED <<exit_status, existing_rule_names, idx, counters, rulesLocals>>

\* Faulty variant: a listing that failed is taken for an empty one
CheckStep2NoneAsEmpty ==
  /\ pc = "step2_return"
  /\ IF IsNone(rules_from_bitbucket) THEN exit(0)
     ELSE IF ~Truthy(Val(rules_from_bitbucket)) THEN exit(0)
     ELSE pc' = "step3" /\ exit_status' = exit_status
  /\ rules_processed' = 0 /\ rules_uploaded' = 0 /\ rules_skipped' = 0
  /\ rules_failed_verification' = 0 /\ rules_failed_upload' = 0
  /\ listing' = NoListing
  /\ UNCHANGED <<mainVars, rulesLocals, filesLocals, log, last>>

\* main, lines 249-262: no list aborts the run, an empty list ends it
\* with status 0, anything else starts step 3 with the counters at zero
CheckStep2 ==
  /\ pc = "step2_return"
  /\ IF IsNone(rules_from_bitbucket) THEN exit(1)
     ELSE IF ~Truthy(Val(rules_from_bitbucket)) THEN exit(0)
     ELSE pc' = "step3" /\ exit_status' = exit_status
  /\ rules_processed' = 0 /\ rules_uploaded' = 0 /\ rules_skipped' = 0
  /\ rules_failed_verification' = 0 /\ rules_failed_upload' = 0
  /\ listing' = NoListing
  /\ UNCHANGED <<mainVars, rulesLocals, filesLocals, log, last>>

\* ------------------------------------------------------- main, step 3
\* verify_rule (lines 197-204)
verify_rule(resp) == ~IsNone(_make_api_request(resp, 200, FALSE))

\* upload_rule (lines 220-229)
upload_rule(resp) ==
  LET data == _make_api_request(resp, 200, FALSE)
  IN /\ ~IsNone(data)
     /\ ("ruleId" \in DOMAIN Val(data) \/ "id" \in DOMAIN Val(data))

\* Faulty variant: the path of the file is looked up, not its name
MatchesByPath(rule_data) == rule_data.path \in Val(existing_rule_names)

\* Line 271: the candidate's name is in the set built in step 1
Matches(rule_data) == rule_data.name \in Val(existing_rule_names)

\* The for loop of line 264 moves on; after the last candidate comes
\* step 4 (lines 286-295)
NextRule ==
  /\ idx' = idx + 1
  /\ pc' = IF idx < Len(Val(rules_from_bitbucket)) THEN "step3" ELSE "step4"

\* Lines 264-273: a candidate whose name matches is skipped
SkipRule ==
  /\ pc = "step3"
  /\ Matches(Val(rules_from_bitbucket)[idx])
  /\ rules_processed' = rules_processed + 1
  /\ rules_skipped' = rules_skipped + 1
  /\ NextRule
  /\ UNCHANGED <<exit_status, existing_rule_names, rules_from_bitbucket,
                 rules_uploaded, rules_failed_verification,
                 rules_failed_upload, rulesLocals, filesLocals, log,
                 listing, last>>

\* Faulty variant: the upload is attempted whatever verify returned
VerifyRuleThenUpload ==
  /\ pc = "step3"
  /\ ~Matches(Val(rules_from_bitbucket)[idx])
  /\ rules_processed' = rules_processed + 1
  /\ \E resp \in VerifyResponses :
       /\ log' = Append(log, Answered("verify", <<idx>>, verify_rule(resp)))
       /\ last' = Exchange("verify", resp, 200, _make_api_request(resp, 200, FALSE))
       /\ pc' = "step3_upload"
       /\ UNCHANGED <<idx, rules_failed_verification>>
  /\ UNCHANGED <<exit_status, existing_rule_names, rules_from_bitbucket,
                 rules_uploaded, rules_skipped, rules_failed_upload,
                 rulesLocals, filesLocals, listing>>

\* Lines 264-271, 274-277 and 283-284: a new candidate is verified
VerifyRule ==
  /\ pc = "step3"
  /\ ~Matches(Val(rules_from_bitbucket)[idx])
  /\ rules_processed' = rules_processed + 1
  /\ \E resp \in VerifyResponses :
       /\ log' = Append(log, Answered("verify", <<idx>>, verify_rule(resp)))
       /\ last' = Exchange("verify", resp, 200, _make_api_request(resp, 200, FALSE))
       /\ IF verify_rule(resp)
          THEN /\ pc' = "step3_upload"
               /\ UNCHANGED <<idx, rules_failed_verification>>
          ELSE /\ rules_failed_verification' = rules_failed_verification + 1
               /\ NextRule
  /\ UNCHANGED <<exit_status, existing_rule_names, rules_from_bitbucket,
                 rules_uploaded, rules_skipped, rules_failed_upload,
                 rulesLocals, filesLocals, listing>>

\* Faulty variant: the name of an uploaded rule joins the set of step 1
UploadRuleRemembers ==
  /\ pc = "step3_upload"
  /\ \E resp \in UploadResponses :
       /\ log' = Append(log, Answered("upload", <<idx>>, upload_rule(resp)))
       /\ last' = Exchange("upload", resp, 200, _make_api_request(resp, 200, FALSE))
       /\ IF upload_rule(resp)
          THEN /\ rules_uploaded' = rules_uploaded + 1
               /\ existing_rule_names' =
                    Some(Val(existing_rule_names)
                           \cup {Val(rules_from_bitbucket)[idx].name})
               /\ UNCHANGED rules_failed_upload
          ELSE /\ rules_failed_upload' = rules_failed_upload + 1
               /\ UNCHANGED <<rules_uploaded, existing_rule_names>>
  /\ NextRule
  /\ UNCHANGED <<exit_status, rules_from_bitbucket,
                 rules_processed, rules_skipped, rules_failed_verification,
                 rulesLocals, filesLocals, listing>>

\* Lines 279-282: a verified candidate is uploaded
UploadRule ==
  /\ pc = "step3_upload"
  /\ \E resp \in UploadResponses :
       /\ log' = Append(log, Answered("upload", <<idx>>, upload_rule(resp)))
       /\ last' = Exchange("upload", resp, 200, _make_api_request(resp, 200, FALSE))
       /\ IF upload_rule(resp)
          THEN /\ rules_uploaded' = rules_uploaded + 1
               /\ UNCHANGED rules_failed_upload
          ELSE /\ rules_failed_upload' = rules_failed_upload + 1
               /\ UNCHANGED rules_uploaded
  /\ NextRule
  /\ UNCHANGED <<exit_status, existing_rule_names, rules_from_bitbucket,
                 rules_processed, rules_skipped, rules_failed_verification,
                 rulesLocals, filesLocals, listing>>

\* Faulty variant: only failed verifications make the run fail
FinishRunVerifyOnly ==
  /\ pc = "step4_return"
  /\ exit(IF rules_failed_verification > 0 THEN 1 ELSE 0)
  /\ listing' = NoListing
  /\ UNCHANGED <<mainVars, counters, rulesLocals, filesLocals, log, last>>

\* ------------------------------------------------------- main, the end
\* Lines 298-303: the exit status is 1 when a verification or an upload
\* failed
FinishRun ==
  /\ pc = "step4_return"
  /\ exit(IF rules_failed_verification > 0 \/ rules_failed_upload > 0
          THEN 1 ELSE 0)
  /\ listing' = NoListing
  /\ UNCHANGED <<mainVars, counters, rulesLocals, filesLocals, log, last>>

Next ==
  \/ ListRulesPage
  \/ CheckStep1
  \/ ListFilesPage
  \/ SkipItem
  \/ FetchFile
  \/ CheckStep2
  \/ SkipRule
  \/ VerifyRule
  \/ UploadRule
  \/ FinishRun

Spec == Init /\ [][Next]_vars

\* ------------------------------------------------------------- properties
\* The candidates of the run and the set they are compared with, once
\* both exist
Compared == ~IsNone(existing_rule_names) /\ ~IsNone(rules_from_bitbucket)
Cands == Val(rules_from_bitbucket)
Known(k) == Cands[k].name \in Val(existing_rule_names)
\* The requests of operation 'op' issued for candidate k
Sent(op, k) == {n \in DOMAIN log : log[n].op = op /\ log[n].key = <<k>>}
Passed(op, k) == \E n \in Sent(op, k) : log[n].ok
Flunked(op, k) == \E n \in Sent(op, k) : ~log[n].ok

\* No request was ever issued for a candidate whose name is in the set,
\* and the skipped counter counts the handled candidates that are in it
C1_NeverSent ==
  Compared =>
    /\ \A k \in DOMAIN Cands :
         Known(k) => Sent("verify", k) = {} /\ Sent("upload", k) = {}
    /\ rules_skipped = Cardinality({k \in 1..(idx - 1) : Known(k)})
\* The step that handles a candidate whose name is in the set
C1_OnlySkipped ==
  (pc = "step3" /\ Known(idx)) =>
    /\ log' = log
    /\ rules_skipped' = rules_skipped + 1
    /\ UNCHANGED <<rules_uploaded, rules_failed_verification,
                   rules_failed_upload>>

\* C1: a candidate whose name is in the set of step 1 is never verified
\* nor uploaded, and the candidates handled so far that are in the set are
\* exactly the ones counted as skipped; the step that handles such a
\* candidate issues no request and raises the skipped counter by one and
\* no other outcome counter.
C1_KnownNeverSent == []C1_NeverSent /\ [][C1_OnlySkipped]_vars

\* C1 happens: a run ended after it skipped a candidate whose name is in
\* the set and uploaded another
C1_Witness ==
  /\ pc = "exited" /\ Compared
  /\ \E k \in DOMAIN Cands : Known(k)
  /\ \E k \in DOMAIN Cands : Passed("upload", k)
  /\ rules_skipped >= 1

\* C2: every candidate handled whose name is not in the set was sent to
\* verify; an upload request comes only after a verify request for the
\* same candidate that succeeded, and never after one that failed.
C2_VerifyBeforeUpload ==
  /\ \A n \in DOMAIN log :
       log[n].op = "upload" =>
         \E m \in 1..(n - 1) :
           log[m].op = "verify" /\ log[m].key = log[n].key /\ log[m].ok
  /\ Compared =>
       \A k \in DOMAIN Cands :
         /\ (k < idx /\ ~Known(k)) => Sent("verify", k) # {}
         /\ Flunked("verify", k) => Sent("upload", k) = {}

\* C2 happens: a run ended in which one candidate failed verification and
\* another was uploaded
C2_Witness ==
  /\ pc = "exited" /\ Compared
  /\ \E k \in DOMAIN Cands : Flunked("verify", k)
  /\ \E k \in DOMAIN Cands : Sent("upload", k) # {}

\* C3 as stated: whenever the run has exited, the status is 1 exactly when
\* a verification or an upload failed.
C3_StatusIffFailures ==
  pc = "exited" =>
    (exit_status = Some(1)
       <=> rules_failed_verification + rules_failed_upload > 0)

\* C3 amended: a run that got its set of names and its list of candidates
\* exits with 1 exactly when a verification or an upload failed; a run
\* without one of them exits with 1 although no counter was raised.
Aborted == IsNone(existing_rule_names) \/ IsNone(rules_from_bitbucket)
C3_StatusIffFailuresUnlessAborted ==
  pc = "exited" =>
    /\ Aborted =>
         /\ exit_status = Some(1)
         /\ rules_failed_verification + rules_failed_upload = 0
    /\ ~Aborted =>
         (exit_status = Some(1)
            <=> rules_failed_verification + rules_failed_upload > 0)

\* C3 happens: a run that uploaded one rule and failed to upload another
\* exited with 1
C3_Witness ==
  /\ pc = "exited" /\ ~Aborted
  /\ rules_uploaded >= 1 /\ rules_failed_upload >= 1
  /\ exit_status = Some(1)

\* C4: when the first page of the rule listing cannot be fetched, the run
\* exits with 1 after that single request; when a page of the directory
\* listing cannot be loaded, the run exits with 1 and no request follows
\* it.  Neither run verifies, uploads or counts a candidate.
FirstPageLost == Len(log) >= 1 /\ ~log[1].ok
DirPageLost == \E n \in DOMAIN log : log[n].op = "list_files" /\ ~log[n].ok
C4_AbortWithoutCandidates ==
  /\ FirstPageLost =>
       /\ Len(log) = 1
       /\ pc \in {"step1_return", "exited"}
       /\ pc = "exited" => exit_status = Some(1)
  /\ DirPageLost =>
       /\ log[Len(log)].op = "list_files" /\ ~log[Len(log)].ok
       /\ pc \in {"step2_return", "exited"}
       /\ pc = "exited" => exit_status = Some(1)
  /\ (FirstPageLost \/ DirPageLost) =>
       /\ \A n \in DOMAIN log : log[n].op \notin {"verify", "upload"}
       /\ rules_processed = 0

\* C4 happens: a run exited after a later page of the directory listing
\* was lost, file contents already fetched
C4_Witness ==
  /\ pc = "exited" /\ DirPageLost
  /\ \E n \in DOMAIN log : log[n].op = "file"

\* The names a page of the rule listing declares
DeclaredNames(page) ==
  IF "rules" \notin DOMAIN page THEN {}
  ELSE {page.rules[k].ruleName :
          k \in {j \in DOMAIN page.rules :
                   /\ "ruleName" \in DOMAIN page.rules[j]
                   /\ page.rules[j].ruleName # <<>>}}
NamesOfPages(pages) == UNION {DeclaredNames(pages[k]) : k \in DOMAIN pages}

\* What the rule listing of step 1 returns when a request yields nothing
C5_AtReturn ==
  pc = "step1_return" =>
    /\ IsNone(existing_rule_names)
         <=> (IsNone(last.data) /\ listing.pages = <<>>)
    /\ (IsNone(last.data) /\ listing.pages # <<>>) =>
         existing_rule_names = Some(NamesOfPages(listing.pages))
\* A listing that returned a set lets the run go on
C5_GoesOn ==
  (pc = "step1_return" /\ ~IsNone(existing_rule_names)) =>
    (pc' = "step2" /\ exit_status' = None)
\* After step 1 the set never changes
C5_Kept ==
  pc # "step1" => existing_rule_names' = existing_rule_names

\* C5: the rule listing of step 1 returns None exactly when its first
\* request yields nothing; when a later request yields nothing it returns
\* the names of the pages received before, and the run goes on to step 2
\* with that set, which it keeps to the end.
C5_PartialListing ==
  /\ []C5_AtReturn
  /\ [][C5_GoesOn /\ C5_Kept]_vars

\* C5 happens: step 3 runs on the names of two pages after a later page of
\* the rule listing was lost, and a candidate matches one of them
C5_Witness ==
  /\ pc = "step3" /\ Compared
  /\ \E n \in DOMAIN log :
       log[n].op = "list_rules" /\ log[n].step = 1 /\ ~log[n].ok
  /\ Val(existing_rule_names) = {RA, RB}
  /\ \E k \in DOMAIN Cands : Known(k)

\* The entries of all pages of a directory listing, in order
RECURSIVE EntriesOf(_)
EntriesOf(pages) ==
  IF pages = <<>> THEN <<>>
  ELSE Get(Head(pages), "values", <<>>) \o EntriesOf(Tail(pages))
IsRuleFile(e) ==
  /\ e.type = "commit_file"
  /\ Len(e.path) >= 2
  /\ SubSeq(e.path, Len(e.path) - 1, Len(e.path)) = <<".", "yaral">>
\* A content request gave text that is more than white space
IsText(f) ==
  /\ f.content # <<>>
  /\ f.content[1].tag = "bytes"
  /\ \A n \in DOMAIN f.content[1].data : f.content[1].data[n] < 128
  /\ \E n \in DOMAIN f.content[1].data :
       f.content[1].data[n] \notin {9, 10, 11, 12, 13, 28, 29, 30, 31, 32}
DirPageUnusable ==
  /\ last.op = "list_files"
  /\ (last.data = <<>> \/ "values" \notin DOMAIN last.data[1])

\* C6: the file listing returns None exactly when a page of the directory
\* listing yields nothing usable; otherwise every rule file of every page
\* was requested, in listing order, and the candidates are, in that order,
\* the files whose content came back as text that is not blank.
C6_FilesLeftOut ==
  pc = "step2_return" =>
    /\ IsNone(rules_from_bitbucket) <=> DirPageUnusable
    /\ ~IsNone(rules_from_bitbucket) =>
         LET wanted == SelectSeq(EntriesOf(listing.pages), IsRuleFile)
             kept == SelectSeq(listing.files, IsText)
         IN /\ Len(listing.files) = Len(wanted)
            /\ \A j \in DOMAIN wanted : listing.files[j].path = wanted[j].path
            /\ Len(Cands) = Len(kept)
            /\ \A j \in DOMAIN kept :
                 /\ Cands[j].path = kept[j].path
                 /\ Cands[j].text = kept[j].content[1].data

\* C6 happens: of two rule files the first was left out and the second
\* became the only candidate
C6_Witness ==
  /\ pc = "step2_return" /\ ~IsNone(rules_from_bitbucket)
  /\ Len(listing.files) = 2
  /\ ~IsText(listing.files[1])
  /\ IsText(listing.files[2])
  /\ Len(Cands) = 1

\* A page carries a token or link for a further page (an empty one counts
\* for none)
Carries(page, key) == key \in DOMAIN page /\ page[key] # <<>>
Chained(pages, key) ==
  \A k \in DOMAIN pages : k < Len(pages) => Carries(pages[k], key)
Closed(pages, key) ==
  pages # <<>> /\ Chained(pages, key) /\ ~Carries(pages[Len(pages)], key)
Running(pages, key) == \A k \in DOMAIN pages : Carries(pages[k], key)

\* C7: a listing asks for a further page exactly when the page it got
\* carries a token or link; a listing that ends on a page it got returns
\* what all its pages hold: the names of every page for the rule listing,
\* the rule files of every page for the directory listing.
C7_Pagination ==
  /\ pc \in {"step1", "step4"} => Running(listing.pages, "nextPageToken")
  /\ pc \in {"step2", "step2_items"} => Running(listing.pages, "next")
  /\ (pc \in {"step1_return", "step4_return"} /\ ~IsNone(last.data)) =>
       Closed(listing.pages, "nextPageToken")
  /\ (pc \in {"step1_return", "step4_return"} /\ IsNone(last.data)) =>
       Running(listing.pages, "nextPageToken")
  /\ (pc = "step1_return" /\ ~IsNone(last.data)) =>
       existing_rule_names = Some(NamesOfPages(listing.pages))
  /\ (pc = "step2_return" /\ ~IsNone(rules_from_bitbucket)) =>
       /\ Closed(listing.pages, "next")
       /\ Len(listing.files)
            = Len(SelectSeq(EntriesOf(listing.pages), IsRuleFile))
       /\ {Cands[j].path : j \in DOMAIN Cands}
            = {listing.files[j].path :
                 j \in {i \in DOMAIN listing.files : IsText(listing.files[i])}}

\* C7 happens: a rule listing of three pages, each with names, returned
\* the names of all of them
C7_Witness ==
  /\ pc = "step1_return"
  /\ Len(listing.pages) = 3
  /\ \A k \in 1..3 : DeclaredNames(listing.pages[k]) # {}
  /\ DeclaredNames(listing.pages[1]) # DeclaredNames(listing.pages[2])
  /\ existing_rule_names = Some({RA, RB})

\* C8 as stated: an answer whose status is not the expected one yields no
\* result, so that verify_rule and upload_rule return false; and
\* verify_rule returns true whenever the status is the expected one.
C8_UnexpectedStatusFails ==
  last.op # "none" =>
    /\ last.resp.status # last.expected => IsNone(last.data)
    /\ (last.op \in {"verify", "upload"} /\ last.resp.status # last.expected)
         => ~log[Len(log)].ok
    /\ (last.op = "verify" /\ last.resp.status = last.expected)
         => log[Len(log)].ok

\* What identifies a request of the log
Same(a, b) == log[a].op = log[b].op /\ log[a].key = log[b].key

\* C9 as stated: no request is issued twice in a run.
C9_NoRequestTwice ==
  \A a, b \in DOMAIN log : a # b => ~Same(a, b)

\* C9 amended: no request is issued twice within a step of main; requests
\* for pages of the rule listing are issued in step 1 and again in step 4,
\* every other request once in the run.
C9_NoRequestTwiceInAStep ==
  \A a, b \in DOMAIN log :
    (a # b /\ Same(a, b)) =>
      /\ log[a].op = "list_rules"
      /\ log[a].step # log[b].step
      /\ {log[a].step, log[b].step} = {1, 4}

\* C9 happens: a run that uploaded a rule ended after step 4 asked again
\* for the second page of the rule listing, which had failed in step 1
C9_Witness ==
  /\ pc = "exited"
  /\ \E a, b \in DOMAIN log :
       /\ a < b /\ Same(a, b) /\ log[a].key = PageToken(2)
       /\ ~log[a].ok
  /\ \E n \in DOMAIN log : log[n].op = "upload"

\* C10: between two candidates the four outcome counters add up to the
\* number of candidates handled, and each counts its own outcome:
\* skipped the candidates whose name is in the set of step 1, failed
\* verification those whose verify failed, uploaded and failed upload
\* those whose verify passed, by the result of the upload.
C10_Counters ==
  (Compared /\ pc # "step2_return") =>
    LET done == IF pc = "step3_upload" THEN 1..idx ELSE 1..(idx - 1)
        settled == 1..(idx - 1)
    IN /\ rules_processed = Cardinality(done)
       /\ pc # "step3_upload" =>
            rules_processed = rules_skipped + rules_uploaded
                                + rules_failed_verification + rules_failed_upload
       /\ rules_skipped = Cardinality({k \in settled : Known(k)})
       /\ rules_failed_verification
            = Cardinality({k \in settled : ~Known(k) /\ Flunked("verify", k)})
       /\ rules_uploaded
            = Cardinality({k \in settled :
                             ~Known(k) /\ Passed("verify", k) /\ Passed("upload", k)})
       /\ rules_failed_upload
            = Cardinality({k \in settled :
                             ~Known(k) /\ Passed("verify", k) /\ Flunked("upload", k)})

\* C10 happens: of two candidates of the same name the first was uploaded
\* and the second was verified again, none skipped
C10_Witness ==
  /\ pc = "exited" /\ Compared
  /\ Len(Cands) = 2
  /\ Cands[1].name = Cands[2].name
  /\ Passed("upload", 1)
  /\ Sent("verify", 2) # {}
  /\ rules_skipped = 0
====
